---- MODULE Spec2Model ----
(***************************************************************************)
(* A model of the MIR pipeline of contrib/mir: the typechecker             *)
(* (src/contrib/mir/src/typechecker.rs), the gas meter and the interpreter *)
(* that src/contrib/mir/src/main.rs drives (mod gas, mod interpreter; both *)
(* are modelled from the specification, sections 4.3, 4.4, 4.6 and 6.2).   *)
(* Stacks are sequences with the top of the stack at index 1.              *)
(***************************************************************************)
EXTENDS Integers, Sequences, FiniteSets, TLC

\* ------------------------------------------------------------------------
\* Bounds of the model
\* ------------------------------------------------------------------------
\* longest top-level program drawn by Init
MaxLen == 2
\* longest initial type stack drawn by Init
MaxStack == 2
\* largest of the closely spaced interpreter budgets (milligas)
MaxGas == 80
\* spacing of the interpreter budgets
GasStep == 10
\* largest Fibonacci argument drawn by StartFibonacci
MaxN == 10
\* largest Fibonacci budget drawn below the full budgets
MaxFibGas == 900
\* longest type stack one instruction is checked on
MaxTcStack == 3
\* largest depth argument of the Dip, Drop and Dup that are checked
MaxHeight == 3
\* most digits of a depth argument given to the parser
MaxDigits == 4
\* most bytes of a value in durable storage, and of a read
MaxBytes == 2

\* ------------------------------------------------------------------------
\* AST: types, values, instructions
\* ------------------------------------------------------------------------
Type == {"Nat", "Int", "Bool", "Mutez"}

\* Option<usize> of Dip / Drop / Dup
None == [has |-> FALSE, n |-> 0]
Some(k) == [has |-> TRUE, n |-> k]
unwrap_or(o, d) == IF o.has THEN o.n ELSE d

\* Value: the untyped literal of PUSH
NoValue == [k |-> "-", n |-> 0, b |-> FALSE]
NumberValue(x) == [k |-> "NumberValue", n |-> x, b |-> FALSE]
BooleanValue(x) == [k |-> "BooleanValue", n |-> 0, b |-> x]

\* Instruction; ov is the overload tag of the typed AST ("-" before typing)
Instruction(op, h, t, v, b1, b2) ==
    [op |-> op, h |-> h, t |-> t, v |-> v, b1 |-> b1, b2 |-> b2, ov |-> "-"]
Add == Instruction("Add", None, "-", NoValue, <<>>, <<>>)
Dip(h, nested) == Instruction("Dip", h, "-", NoValue, nested, <<>>)
Drop(h) == Instruction("Drop", h, "-", NoValue, <<>>, <<>>)
Dup(h) == Instruction("Dup", h, "-", NoValue, <<>>, <<>>)
Gt == Instruction("Gt", None, "-", NoValue, <<>>, <<>>)
If(nested_t, nested_f) == Instruction("If", None, "-", NoValue, nested_t, nested_f)
IntI == Instruction("Int", None, "-", NoValue, <<>>, <<>>)
Loop(nested) == Instruction("Loop", None, "-", NoValue, nested, <<>>)
Push(t, v) == Instruction("Push", None, t, v, <<>>, <<>>)
Swap == Instruction("Swap", None, "-", NoValue, <<>>, <<>>)

\* TypedValue
TypedValue(t, x, b) == [t |-> t, n |-> x, b |-> b]
VNat(x) == TypedValue("Nat", x, FALSE)
VInt(x) == TypedValue("Int", x, FALSE)
VBool(b) == TypedValue("Bool", 0, b)
VMutez(x) == TypedValue("Mutez", x, FALSE)

\* Mutez is a 63-bit amount in the program; the model keeps the range check
\* on a narrower word
MutezBits == 10
MutezMax == 2 ^ MutezBits - 1

\* ------------------------------------------------------------------------
\* Gas meter (section 4.4) and cost table (section 6.2)
\* ------------------------------------------------------------------------
\* Gas::default(): a budget no test exhausts
DefaultGas == 1000000000

\* consume without the check: the counter is lowered whatever it holds
consume_unchecked(milligas, cost) == [ok |-> TRUE, gas |-> milligas - cost]

\* consume that empties the counter when the charge does not fit
consume_clamp(milligas, cost) ==
    IF milligas >= cost
    THEN [ok |-> TRUE, gas |-> milligas - cost]
    ELSE [ok |-> FALSE, gas |-> 0]

\* consume that lets a charge pass when the counter holds less than it
consume_lenient(milligas, cost) ==
    IF milligas >= cost
    THEN [ok |-> TRUE, gas |-> milligas - cost]
    ELSE [ok |-> milligas > 0, gas |-> 0]

\* Gas::consume: the charge applies entirely or not at all
consume(milligas, cost) ==
    IF milligas >= cost
    THEN [ok |-> TRUE, gas |-> milligas - cost]
    ELSE [ok |-> FALSE, gas |-> milligas]

\* typecheck cost of one instruction (nested blocks are charged as checked)
tc_cost(i) ==
    CASE i.op = "Add" -> 20
      [] i.op = "Int" -> 10
      [] i.op = "Gt" -> 10
      [] i.op = "Swap" -> 10
      [] i.op = "Drop" -> 10 + 2 * unwrap_or(i.h, 1)
      [] i.op = "Dup" -> 10 + 2 * unwrap_or(i.h, 1)
      [] i.op = "Push" -> 30
      [] i.op = "Dip" -> 20
      [] i.op = "If" -> 30
      [] i.op = "Loop" -> 30

\* a cost table in which Push and Loop are free
interpret_cost_free(i) ==
    CASE i.op = "Add" -> 20
      [] i.op = "Int" -> 10
      [] i.op = "Gt" -> 10
      [] i.op = "Swap" -> 10
      [] i.op = "Drop" -> 10 + 2 * unwrap_or(i.h, 1)
      [] i.op = "Dup" -> 10 + 2 * unwrap_or(i.h, 1)
      [] i.op = "Push" -> 0
      [] i.op = "Dip" -> 20
      [] i.op = "If" -> 0
      [] i.op = "Loop" -> 0

\* interpret cost of one step (nested blocks are charged as executed; Loop
\* is charged each time its condition is taken from the stack)
interpret_cost(i) ==
    CASE i.op = "Add" -> 20
      [] i.op = "Int" -> 10
      [] i.op = "Gt" -> 10
      [] i.op = "Swap" -> 10
      [] i.op = "Drop" -> 10 + 2 * unwrap_or(i.h, 1)
      [] i.op = "Dup" -> 10 + 2 * unwrap_or(i.h, 1)
      [] i.op = "Push" -> 20
      [] i.op = "Dip" -> 20
      [] i.op = "If" -> 30
      [] i.op = "Loop" -> 30

\* ------------------------------------------------------------------------
\* Typechecker (typechecker.rs)
\* ------------------------------------------------------------------------
\* Result of typecheck / typecheck_instruction: res is "Ok", a TcError, or
\* "Panic" (unimplemented!()); stack is the caller's &mut TypeStack when the
\* call returns; typed is the typed AST produced (empty on failure)
TcResult(res, gas, stack, typed) ==
    [res |-> res, gas |-> gas, stack |-> stack, typed |-> typed]

\* VecDeque::split_off(at): self keeps [0, at), the result holds [at, len)
split_keep(stack, at) == SubSeq(stack, 1, at)
split_off(stack, at) == SubSeq(stack, at + 1, Len(stack))

\* the overload the typechecker stamps on Add
add_overload(stack) ==
    IF Len(stack) < 2 THEN "-"
    ELSE CASE stack[1] = "Nat" /\ stack[2] = "Nat" -> "NatNat"
           [] stack[1] = "Int" /\ stack[2] = "Int" -> "IntInt"
           [] stack[1] = "Mutez" /\ stack[2] = "Mutez" -> "MutezMutez"
           [] OTHER -> "-"

tc_Add(i, gas, stack) ==
    IF Len(stack) >= 2 /\ stack[1] = "Nat" /\ stack[2] = "Nat"
    THEN TcResult("Ok", gas, Tail(stack), <<[i EXCEPT !.ov = add_overload(stack)]>>)
    ELSE IF Len(stack) >= 2 /\ stack[1] = "Int" /\ stack[2] = "Int"
    THEN TcResult("Ok", gas, Tail(stack), <<[i EXCEPT !.ov = add_overload(stack)]>>)
    ELSE TcResult("Panic", gas, stack, <<>>)

tc_Drop(i, gas, stack) ==
    LET drop_height == unwrap_or(i.h, 1) IN
    IF Len(stack) < drop_height
    THEN TcResult("StackTooShort", gas, stack, <<>>)
    ELSE TcResult("Ok", gas, split_off(stack, drop_height), <<i>>)

tc_Dup(i, gas, stack) ==
    IF i.h = Some(0)
    THEN TcResult("GenericTcError", gas, stack, <<>>)
    ELSE LET dup_height == unwrap_or(i.h, 1) IN
         IF Len(stack) < dup_height
         THEN TcResult("StackTooShort", gas, stack, <<>>)
         ELSE TcResult("Ok", gas, <<stack[dup_height]>> \o stack, <<i>>)

\* Gt that leaves the Int on top of the type stack
tc_Gt_keeps_int(i, gas, stack) ==
    IF Len(stack) >= 1 /\ stack[1] = "Int"
    THEN TcResult("Ok", gas, stack, <<i>>)
    ELSE TcResult("GenericTcError", gas, stack, <<>>)

tc_Gt(i, gas, stack) ==
    IF Len(stack) >= 1 /\ stack[1] = "Int"
    THEN TcResult("Ok", gas, <<"Bool">> \o Tail(stack), <<i>>)
    ELSE TcResult("GenericTcError", gas, stack, <<>>)

\* Int that leaves the Nat on top of the type stack
tc_Int_keeps_nat(i, gas, stack) ==
    IF Len(stack) >= 1 /\ stack[1] = "Nat"
    THEN TcResult("Ok", gas, stack, <<i>>)
    ELSE TcResult("GenericTcError", gas, stack, <<>>)

tc_Int(i, gas, stack) ==
    IF Len(stack) >= 1 /\ stack[1] = "Nat"
    THEN TcResult("Ok", gas, <<"Int">> \o Tail(stack), <<i>>)
    ELSE TcResult("GenericTcError", gas, stack, <<>>)

\* typecheck_value that takes every number for a Nat
typecheck_value_any_nat(t, v) ==
    CASE t = "Nat" /\ v.k = "NumberValue" -> "Ok"
      [] t = "Int" /\ v.k = "NumberValue" -> "Ok"
      [] t = "Bool" /\ v.k = "BooleanValue" -> "Ok"
      [] OTHER -> "GenericTcError"

typecheck_value(t, v) ==
    CASE t = "Nat" /\ v.k = "NumberValue" /\ v.n >= 0 -> "Ok"
      [] t = "Int" /\ v.k = "NumberValue" -> "Ok"
      [] t = "Bool" /\ v.k = "BooleanValue" -> "Ok"
      [] OTHER -> "GenericTcError"

tc_Push(i, gas, stack) ==
    IF typecheck_value(i.t, i.v) = "Ok"
    THEN TcResult("Ok", gas, <<i.t>> \o stack, <<i>>)
    ELSE TcResult(typecheck_value(i.t, i.v), gas, stack, <<>>)

tc_Swap(i, gas, stack) ==
    IF Len(stack) < 2
    THEN TcResult("StackTooShort", gas, stack, <<>>)
    ELSE TcResult("Ok", gas, <<stack[2], stack[1]>> \o SubSeq(stack, 3, Len(stack)), <<i>>)

RECURSIVE typecheck(_, _, _)
RECURSIVE typecheck_instruction(_, _, _)

\* Dip that puts the protected slots below the stack the block left
tc_Dip_protected_below(i, gas, stack) ==
    LET protected_height == unwrap_or(i.h, 1) IN
    IF Len(stack) < protected_height
    THEN TcResult("StackTooShort", gas, stack, <<>>)
    ELSE LET protected == split_keep(stack, protected_height)
             live == typecheck(i.b1, gas, split_off(stack, protected_height))
         IN  IF live.res # "Ok"
             THEN TcResult(live.res, live.gas, protected, <<>>)
             ELSE TcResult("Ok", live.gas, live.stack \o protected,
                           <<[i EXCEPT !.b1 = live.typed]>>)

tc_Dip(i, gas, stack) ==
    LET protected_height == unwrap_or(i.h, 1) IN
    IF Len(stack) < protected_height
    THEN TcResult("StackTooShort", gas, stack, <<>>)
    ELSE LET protected == split_keep(stack, protected_height)
             live == typecheck(i.b1, gas, split_off(stack, protected_height))
         IN  IF live.res # "Ok"
             THEN TcResult(live.res, live.gas, protected, <<>>)
             ELSE TcResult("Ok", live.gas, protected \o live.stack,
                           <<[i EXCEPT !.b1 = live.typed]>>)

\* If that checks the second branch on the stack the first branch left
tc_If_sequential(i, gas, stack) ==
    IF Len(stack) >= 1 /\ stack[1] = "Bool"
    THEN LET t == Tail(stack)
             t_stack == typecheck(i.b1, gas, t)
         IN  IF t_stack.res # "Ok"
             THEN TcResult(t_stack.res, t_stack.gas, stack, <<>>)
             ELSE LET f_stack == typecheck(i.b2, t_stack.gas, t_stack.stack) IN
                  IF f_stack.res # "Ok"
                  THEN TcResult(f_stack.res, f_stack.gas, stack, <<>>)
                  ELSE IF t_stack.stack # f_stack.stack
                  THEN TcResult("StacksNotEqual", f_stack.gas, stack, <<>>)
                  ELSE TcResult("Ok", f_stack.gas, t_stack.stack,
                                <<[i EXCEPT !.b1 = t_stack.typed, !.b2 = f_stack.typed]>>)
    ELSE TcResult("GenericTcError", gas, stack, <<>>)

tc_If(i, gas, stack) ==
    IF Len(stack) >= 1 /\ stack[1] = "Bool"
    THEN LET t == Tail(stack)
             t_stack == typecheck(i.b1, gas, t)
         IN  IF t_stack.res # "Ok"
             THEN TcResult(t_stack.res, t_stack.gas, stack, <<>>)
             ELSE LET f_stack == typecheck(i.b2, t_stack.gas, t) IN
                  IF f_stack.res # "Ok"
                  THEN TcResult(f_stack.res, f_stack.gas, stack, <<>>)
                  ELSE IF t_stack.stack # f_stack.stack
                  THEN TcResult("StacksNotEqual", f_stack.gas, stack, <<>>)
                  ELSE TcResult("Ok", f_stack.gas, t_stack.stack,
                                <<[i EXCEPT !.b1 = t_stack.typed, !.b2 = f_stack.typed]>>)
    ELSE TcResult("GenericTcError", gas, stack, <<>>)

\* Loop that does not compare the rest of the stack the body left
tc_Loop_any_tail(i, gas, stack) ==
    IF Len(stack) >= 1 /\ stack[1] = "Bool"
    THEN LET t == Tail(stack)
             live == typecheck(i.b1, gas, t)
         IN  IF live.res # "Ok"
             THEN TcResult(live.res, live.gas, stack, <<>>)
             ELSE IF Len(live.stack) >= 1 /\ live.stack[1] = "Bool"
             THEN TcResult("Ok", live.gas, Tail(stack),
                           <<[i EXCEPT !.b1 = live.typed]>>)
             ELSE TcResult("GenericTcError", live.gas, stack, <<>>)
    ELSE TcResult("GenericTcError", gas, stack, <<>>)

tc_Loop(i, gas, stack) ==
    IF Len(stack) >= 1 /\ stack[1] = "Bool"
    THEN LET t == Tail(stack)
             live == typecheck(i.b1, gas, t)
         IN  IF live.res # "Ok"
             THEN TcResult(live.res, live.gas, stack, <<>>)
             ELSE IF Len(live.stack) >= 1 /\ live.stack[1] = "Bool"
             THEN IF t # Tail(live.stack)
                  THEN TcResult("StacksNotEqual", live.gas, stack, <<>>)
                  ELSE TcResult("Ok", live.gas, Tail(stack),
                                <<[i EXCEPT !.b1 = live.typed]>>)
             ELSE TcResult("GenericTcError", live.gas, stack, <<>>)
    ELSE TcResult("GenericTcError", gas, stack, <<>>)

\* typecheck_instruction that inspects the operands before it charges
typecheck_instruction_inspect_first(i, gas, stack) ==
    LET charge == consume(gas, tc_cost(i))
        inspected ==
            CASE i.op = "Add" -> tc_Add(i, gas, stack)
              [] i.op = "Dip" -> tc_Dip(i, gas, stack)
              [] i.op = "Drop" -> tc_Drop(i, gas, stack)
              [] i.op = "Dup" -> tc_Dup(i, gas, stack)
              [] i.op = "Gt" -> tc_Gt(i, gas, stack)
              [] i.op = "If" -> tc_If(i, gas, stack)
              [] i.op = "Int" -> tc_Int(i, gas, stack)
              [] i.op = "Loop" -> tc_Loop(i, gas, stack)
              [] i.op = "Push" -> tc_Push(i, gas, stack)
              [] i.op = "Swap" -> tc_Swap(i, gas, stack)
    IN  IF inspected.res \notin {"Ok", "OutOfGas"}
        THEN inspected
        ELSE IF ~charge.ok
        THEN TcResult("OutOfGas", charge.gas, stack, <<>>)
        ELSE [inspected EXCEPT !.gas = inspected.gas - tc_cost(i)]

typecheck_instruction(i, gas, stack) ==
    LET charge == consume(gas, tc_cost(i)) IN
    IF ~charge.ok
    THEN TcResult("OutOfGas", charge.gas, stack, <<>>)
    ELSE CASE i.op = "Add" -> tc_Add(i, charge.gas, stack)
           [] i.op = "Dip" -> tc_Dip(i, charge.gas, stack)
           [] i.op = "Drop" -> tc_Drop(i, charge.gas, stack)
           [] i.op = "Dup" -> tc_Dup(i, charge.gas, stack)
           [] i.op = "Gt" -> tc_Gt(i, charge.gas, stack)
           [] i.op = "If" -> tc_If(i, charge.gas, stack)
           [] i.op = "Int" -> tc_Int(i, charge.gas, stack)
           [] i.op = "Loop" -> tc_Loop(i, charge.gas, stack)
           [] i.op = "Push" -> tc_Push(i, charge.gas, stack)
           [] i.op = "Swap" -> tc_Swap(i, charge.gas, stack)

typecheck(ast, gas, stack) ==
    IF ast = <<>>
    THEN TcResult("Ok", gas, stack, <<>>)
    ELSE LET r == typecheck_instruction(Head(ast), gas, stack) IN
         IF r.res # "Ok"
         THEN r
         ELSE LET rest == typecheck(Tail(ast), r.gas, r.stack) IN
              IF rest.res # "Ok"
              THEN rest
              ELSE TcResult("Ok", rest.gas, rest.stack, r.typed \o rest.typed)

\* ------------------------------------------------------------------------
\* Programs of main.rs
\* ------------------------------------------------------------------------
FIBONACCI_SRC ==
    << IntI,
       Push("Int", NumberValue(0)),
       Dup(Some(2)),
       Gt,
       If(<< Dip(None, <<Push("Int", NumberValue(-1)), Add>>),
             Push("Int", NumberValue(1)),
             Dup(Some(3)),
             Gt,
             Loop(<< Swap,
                     Dup(Some(2)),
                     Add,
                     Dip(Some(2), <<Push("Int", NumberValue(-1)), Add>>),
                     Dup(Some(3)),
                     Gt >>),
             Dip(None, <<Drop(Some(2))>>) >>,
          << Dip(None, <<Drop(None)>>) >>) >>

\* ------------------------------------------------------------------------
\* Interpreter (section 4.6), one step per action
\* ------------------------------------------------------------------------
\* Result of one primitive step on the value stack
StepResult(res, stack) == [res |-> res, stack |-> stack]

interpret_Add(i, stack) ==
    IF Len(stack) < 2
    THEN StepResult("InternalInvariantBroken", stack)
    ELSE LET a == stack[1]
             b == stack[2]
             rest == SubSeq(stack, 3, Len(stack))
         IN  CASE i.ov = "NatNat" /\ a.t = "Nat" /\ b.t = "Nat" ->
                    StepResult("Ok", <<VNat(a.n + b.n)>> \o rest)
               [] i.ov = "IntInt" /\ a.t = "Int" /\ b.t = "Int" ->
                    StepResult("Ok", <<VInt(a.n + b.n)>> \o rest)
               [] i.ov = "MutezMutez" /\ a.t = "Mutez" /\ b.t = "Mutez" ->
                    IF a.n + b.n > MutezMax
                    THEN StepResult("MutezOverflow", rest)
                    ELSE StepResult("Ok", <<VMutez(a.n + b.n)>> \o rest)
               [] OTHER -> StepResult("InternalInvariantBroken", stack)

interpret_Int(i, stack) ==
    IF Len(stack) >= 1 /\ stack[1].t = "Nat"
    THEN StepResult("Ok", <<VInt(stack[1].n)>> \o Tail(stack))
    ELSE StepResult("InternalInvariantBroken", stack)

\* Gt that compares with >= 0
interpret_Gt_ge(i, stack) ==
    IF Len(stack) >= 1 /\ stack[1].t = "Int"
    THEN StepResult("Ok", <<VBool(stack[1].n >= 0)>> \o Tail(stack))
    ELSE StepResult("InternalInvariantBroken", stack)

interpret_Gt(i, stack) ==
    IF Len(stack) >= 1 /\ stack[1].t = "Int"
    THEN StepResult("Ok", <<VBool(stack[1].n > 0)>> \o Tail(stack))
    ELSE StepResult("InternalInvariantBroken", stack)

interpret_Swap(i, stack) ==
    IF Len(stack) >= 2
    THEN StepResult("Ok", <<stack[2], stack[1]>> \o SubSeq(stack, 3, Len(stack)))
    ELSE StepResult("InternalInvariantBroken", stack)

\* the value obtained from the literal v at type t
typed_value(t, v) ==
    CASE t = "Nat" -> VNat(v.n)
      [] t = "Int" -> VInt(v.n)
      [] t = "Mutez" -> VMutez(v.n)
      [] t = "Bool" -> VBool(v.b)

interpret_Push(i, stack) ==
    StepResult("Ok", <<typed_value(i.t, i.v)>> \o stack)

interpret_Drop(i, stack) ==
    IF Len(stack) >= unwrap_or(i.h, 1)
    THEN StepResult("Ok", SubSeq(stack, unwrap_or(i.h, 1) + 1, Len(stack)))
    ELSE StepResult("InternalInvariantBroken", stack)

interpret_Dup(i, stack) ==
    IF unwrap_or(i.h, 1) >= 1 /\ Len(stack) >= unwrap_or(i.h, 1)
    THEN StepResult("Ok", <<stack[unwrap_or(i.h, 1)]>> \o stack)
    ELSE StepResult("InternalInvariantBroken", stack)

\* A frame of the interpreter's recursion: the instructions of the block
\* still to run and, for the block of a Dip, the protected values to put
\* back on top when the block ends
Frame(code, protected) == [code |-> code, protected |-> protected]

VARIABLES
    phase,      \* "tc", "tcdone", "run", "done"
    ast,        \* the untyped program
    ty0,        \* the type stack typecheck started from
    tcBudget,   \* the milligas typecheck started with
    todo,       \* typecheck: the instructions of ast not yet checked
    tcStack,    \* typecheck: the caller's type stack
    tcGas,      \* typecheck: the gas counter
    tcRes,      \* typecheck: "Running", "Ok", a TcError or "Panic"
    typed,      \* the typed AST produced so far
    v0,         \* the value stack interpret started from
    budget,     \* the milligas interpret started with
    stack,      \* interpret: the caller's value stack
    gas,        \* interpret: the gas counter
    frames,     \* interpret: the blocks being run, innermost first
    res,        \* interpret: "Idle", "Running", "Ok" or an InterpretError
    tcErr,      \* typecheck: the TcError returned
    text,       \* parser: the source text given to parse
    parsed,     \* parser: the result of parse
    durable,    \* host: the durable storage, path -> value
    calls,      \* host: the host functions the last Runtime call invoked
    ret         \* host: the last Runtime call and its result

\* the variables of the parser and of the host wrapper
extVars == <<text, parsed, durable, calls, ret>>
\* the variables of the MIR pipeline
mirVars == <<phase, ast, ty0, tcBudget, todo, tcStack, tcGas, tcRes, typed,
             v0, budget, stack, gas, frames, res, tcErr>>
vars == <<phase, ast, ty0, tcBudget, todo, tcStack, tcGas, tcRes, typed,
          v0, budget, stack, gas, frames, res, tcErr,
          text, parsed, durable, calls, ret>>
tcVars == <<ast, ty0, tcBudget, todo, tcStack, tcGas, tcRes, typed, tcErr, extVars>>
runConst == <<ast, ty0, tcBudget, todo, tcStack, tcGas, tcRes, typed, v0, budget,
              tcErr, extVars>>

\* TcError (typechecker.rs:14-18): every variant is a unit variant, and the
\* conversions from StackTooShort and StacksNotEqual keep the kind only
TcError(kind) == [kind |-> kind]
NoError == [kind |-> "-"]

\* ---- typecheck: for i in ast { typecheck_instruction(&i, stack)?; } Ok(())
TypecheckStep ==
    /\ phase = "tc"
    /\ todo # <<>>
    /\ LET r == typecheck_instruction(Head(todo), tcGas, tcStack) IN
       /\ tcGas' = r.gas
       /\ tcStack' = r.stack
       /\ IF r.res = "Ok"
          THEN /\ typed' = typed \o r.typed
               /\ todo' = Tail(todo)
               /\ UNCHANGED <<tcRes, tcErr, phase>>
          ELSE /\ tcRes' = r.res
               /\ tcErr' = TcError(r.res)
               /\ phase' = "tcdone"
               /\ UNCHANGED <<typed, todo>>
    /\ UNCHANGED <<ast, ty0, tcBudget, v0, budget, stack, gas, frames, res, extVars>>

TypecheckReturn ==
    /\ phase = "tc"
    /\ todo = <<>>
    /\ tcRes' = "Ok"
    /\ phase' = "tcdone"
    /\ UNCHANGED <<ast, ty0, tcBudget, todo, tcStack, tcGas, typed,
                   v0, budget, stack, gas, frames, res, tcErr, extVars>>

\* ---- interpret
\* the caller builds the value stack and the gas meter and calls interpret
Start(values, milligas) ==
    /\ tcRes = "Ok"
    /\ v0' = values
    /\ budget' = milligas
    /\ stack' = values
    /\ gas' = milligas
    /\ frames' = <<Frame(typed, <<>>)>>
    /\ res' = "Running"
    /\ phase' = "run"
    /\ UNCHANGED tcVars

\* the instruction interpret is about to run
HasCur == phase = "run" /\ frames # <<>> /\ Head(frames).code # <<>>
cur == Head(Head(frames).code)
\* the frames once the current instruction is done
Advance == <<[Head(frames) EXCEPT !.code = Tail(@)]>> \o Tail(frames)

\* interpret returns Err(e)
Fail(e, g, s) ==
    /\ res' = e
    /\ phase' = "done"
    /\ gas' = g
    /\ stack' = s
    /\ UNCHANGED frames

\* an instruction without nested blocks: charge, then act on the stack
Primitive(r) ==
    LET charge == consume(gas, interpret_cost(cur)) IN
    IF ~charge.ok
    THEN Fail("OutOfGas", charge.gas, stack)
    ELSE IF r.res # "Ok"
    THEN Fail(r.res, charge.gas, r.stack)
    ELSE /\ gas' = charge.gas
         /\ stack' = r.stack
         /\ frames' = Advance
         /\ UNCHANGED <<res, phase>>

IAdd ==
    /\ HasCur
    /\ cur.op = "Add"
    /\ Primitive(interpret_Add(cur, stack))
    /\ UNCHANGED runConst

IInt ==
    /\ HasCur
    /\ cur.op = "Int"
    /\ Primitive(interpret_Int(cur, stack))
    /\ UNCHANGED runConst

IGt ==
    /\ HasCur
    /\ cur.op = "Gt"
    /\ Primitive(interpret_Gt(cur, stack))
    /\ UNCHANGED runConst

ISwap ==
    /\ HasCur
    /\ cur.op = "Swap"
    /\ Primitive(interpret_Swap(cur, stack))
    /\ UNCHANGED runConst

IPush ==
    /\ HasCur
    /\ cur.op = "Push"
    /\ Primitive(interpret_Push(cur, stack))
    /\ UNCHANGED runConst

IDrop ==
    /\ HasCur
    /\ cur.op = "Drop"
    /\ Primitive(interpret_Drop(cur, stack))
    /\ UNCHANGED runConst

IDup ==
    /\ HasCur
    /\ cur.op = "Dup"
    /\ Primitive(interpret_Dup(cur, stack))
    /\ UNCHANGED runConst

\* Dip n B: split off the top n, run B on the remainder (the caller's
\* stack, which split_off leaves equal to the remainder), then re-prepend
IDip ==
    /\ HasCur
    /\ cur.op = "Dip"
    /\ LET charge == consume(gas, interpret_cost(cur))
           protected_height == unwrap_or(cur.h, 1)
       IN  IF ~charge.ok
           THEN Fail("OutOfGas", charge.gas, stack)
           ELSE IF Len(stack) < protected_height
           THEN Fail("InternalInvariantBroken", charge.gas, stack)
           ELSE /\ gas' = charge.gas
                /\ stack' = split_off(stack, protected_height)
                /\ frames' = <<Frame(cur.b1, split_keep(stack, protected_height))>> \o Advance
                /\ UNCHANGED <<res, phase>>
    /\ UNCHANGED runConst

\* If T E: pop Bool b; run T if b, else E
IIf ==
    /\ HasCur
    /\ cur.op = "If"
    /\ LET charge == consume(gas, interpret_cost(cur)) IN
       IF ~charge.ok
       THEN Fail("OutOfGas", charge.gas, stack)
       ELSE IF ~(Len(stack) >= 1 /\ stack[1].t = "Bool")
       THEN Fail("InternalInvariantBroken", charge.gas, stack)
       ELSE /\ gas' = charge.gas
            /\ stack' = Tail(stack)
            /\ frames' = <<Frame(IF stack[1].b THEN cur.b1 ELSE cur.b2, <<>>)>> \o Advance
            /\ UNCHANGED <<res, phase>>
    /\ UNCHANGED runConst

\* Loop B: pop Bool b; while b, run B and pop the new top into b. The Loop
\* stays the current instruction of its block while B runs, so that the
\* end of B comes back to it
ILoop ==
    /\ HasCur
    /\ cur.op = "Loop"
    /\ LET charge == consume(gas, interpret_cost(cur)) IN
       IF ~charge.ok
       THEN Fail("OutOfGas", charge.gas, stack)
       ELSE IF ~(Len(stack) >= 1 /\ stack[1].t = "Bool")
       THEN Fail("InternalInvariantBroken", charge.gas, stack)
       ELSE /\ gas' = charge.gas
            /\ stack' = Tail(stack)
            /\ frames' = IF stack[1].b
                         THEN <<Frame(cur.b1, <<>>)>> \o frames
                         ELSE Advance
            /\ UNCHANGED <<res, phase>>
    /\ UNCHANGED runConst

\* the end of a block: a Dip puts its protected values back; the end of
\* the outermost block is the end of interpret
Return ==
    /\ phase = "run"
    /\ frames # <<>>
    /\ Head(frames).code = <<>>
    /\ stack' = Head(frames).protected \o stack
    /\ frames' = Tail(frames)
    /\ IF Tail(frames) = <<>>
       THEN res' = "Ok" /\ phase' = "done"
       ELSE UNCHANGED <<res, phase>>
    /\ UNCHANGED gas
    /\ UNCHANGED runConst

\* ------------------------------------------------------------------------
\* Inputs
\* ------------------------------------------------------------------------
\* The instructions programs are built from: between them they hold every
\* instruction kind, a block in each of Dip, If and Loop, a block inside a
\* block, a loop that ends and loops that do not
Instructions ==
    { Add, IntI, Gt, Swap, Drop(None),
      Push("Int", NumberValue(-1)),
      Push("Bool", BooleanValue(TRUE)),
      Dip(None, <<Push("Int", NumberValue(-1)), Add>>),
      Dip(None, <<Loop(<<Push("Bool", BooleanValue(TRUE))>>)>>),
      If(<<Dip(None, <<Gt>>)>>, <<Swap, Gt, Swap>>),
      Loop(<<Push("Bool", BooleanValue(TRUE))>>),
      Loop(<<Push("Int", NumberValue(-1)), Add, Dup(None), Gt>>) }

\* sequences over S of length at most n
RECURSIVE SeqsUpTo(_, _)
SeqsUpTo(S, n) ==
    IF n = 0
    THEN {<<>>}
    ELSE LET shorter == SeqsUpTo(S, n - 1) IN
         shorter \cup {<<x>> \o q : x \in S, q \in {r \in shorter : Len(r) = n - 1}}

Programs == SeqsUpTo(Instructions, MaxLen)
\* initial type stacks, over the types the instructions inspect
TypeStacks == SeqsUpTo({"Nat", "Int", "Bool"}, MaxStack)

\* the values of each type the value stacks are built from
ValuesOf(t) ==
    CASE t = "Nat" -> {VNat(0), VNat(1)}
      [] t = "Int" -> {VInt(-1), VInt(1)}
      [] t = "Bool" -> {VBool(TRUE), VBool(FALSE)}
      [] t = "Mutez" -> {VMutez(0), VMutez(MutezMax)}

\* the type stack of a value stack
TypesOf(values) == [k \in 1..Len(values) |-> values[k].t]

\* the value stacks whose values have the types of the type stack
RECURSIVE ValueStacksOf(_)
ValueStacksOf(types) ==
    IF types = <<>>
    THEN {<<>>}
    ELSE {<<x>> \o q : x \in ValuesOf(Head(types)), q \in ValueStacksOf(Tail(types))}

\* interpreter budgets: every multiple of GasStep up to MaxGas, which stops a
\* short program before each of its steps, and one budget that lets the
\* programs that end run to their end
Budgets == {g \in 0..MaxGas : g % GasStep = 0} \cup {3 * MaxGas}

\* the parser and the host wrapper take no part in a run of the pipeline
ParserIdle ==
    /\ text = <<>>
    /\ parsed = <<>>

HostIdle ==
    /\ durable = <<>>
    /\ calls = <<>>
    /\ ret = <<>>

ExtIdle == ParserIdle /\ HostIdle

\* the pipeline takes no part in a run of the parser or of the host wrapper
MirIdle ==
    /\ phase = "idle"
    /\ ast = <<>>
    /\ ty0 = <<>>
    /\ tcBudget = 0
    /\ todo = <<>>
    /\ tcStack = <<>>
    /\ tcGas = 0
    /\ tcRes = "Idle"
    /\ typed = <<>>
    /\ v0 = <<>>
    /\ budget = 0
    /\ stack = <<>>
    /\ gas = 0
    /\ frames = <<>>
    /\ res = "Idle"
    /\ tcErr = NoError

Setup(program, types, milligas) ==
    /\ phase = "tc"
    /\ ast = program
    /\ ty0 = types
    /\ tcBudget = milligas
    /\ todo = program
    /\ tcStack = types
    /\ tcGas = milligas
    /\ tcRes = "Running"
    /\ typed = <<>>
    /\ v0 = <<>>
    /\ budget = 0
    /\ stack = <<>>
    /\ gas = 0
    /\ frames = <<>>
    /\ res = "Idle"
    /\ tcErr = NoError
    /\ ExtIdle

\* typecheck budgets: Gas::default(), and one that a program of two
\* instructions can exhaust
TcBudgets == {DefaultGas, 4 * GasStep}

Init ==
    \E program \in Programs, types \in TypeStacks, milligas \in TcBudgets :
        Setup(program, types, milligas)

StartInterpret ==
    /\ phase = "tcdone"
    /\ \E values \in ValueStacksOf(ty0), milligas \in Budgets : Start(values, milligas)

Next ==
    \/ TypecheckStep
    \/ TypecheckReturn
    \/ StartInterpret
    \/ IAdd
    \/ IInt
    \/ IGt
    \/ ISwap
    \/ IPush
    \/ IDrop
    \/ IDup
    \/ IDip
    \/ IIf
    \/ ILoop
    \/ Return

Spec == Init /\ [][Next]_vars

\* the steps of interpret
Interpret ==
    \/ IAdd
    \/ IInt
    \/ IGt
    \/ ISwap
    \/ IPush
    \/ IDrop
    \/ IDup
    \/ IDip
    \/ IIf
    \/ ILoop
    \/ Return

\* ---- programs with loops
LoopPrograms ==
    { FIBONACCI_SRC,
      <<Push("Bool", BooleanValue(TRUE)), Loop(<<Push("Bool", BooleanValue(TRUE))>>)>>,
      <<Push("Bool", BooleanValue(TRUE)), Loop(<<Swap, Dup(None), Gt>>)>>,
      <<Loop(<<Dup(None), Gt>>)>>,
      <<Loop(<<Push("Int", NumberValue(-1)), Add, Dup(None), Gt>>)>>,
      <<Dip(None, <<Loop(<<Push("Bool", BooleanValue(TRUE))>>)>>)>>,
      <<If(<<Loop(<<Push("Bool", BooleanValue(TRUE))>>)>>, <<Drop(None)>>)>> }

InitLoop ==
    \E program \in LoopPrograms, types \in TypeStacks :
        Setup(program, types, DefaultGas)

\* interpret is a synchronous call: once called it runs until it returns
FairSpec == InitLoop /\ [][Next]_vars /\ WF_vars(Interpret)

\* ---- the tests of main.rs on FIBONACCI_SRC
\* typecheck budgets: Gas::default(), typecheck_gas, typecheck_out_of_gas,
\* and the multiples of ten GasStep up to 500
FibTcBudgets ==
    {DefaultGas, 11460, 1000} \cup {g \in 0..500 : g % (10 * GasStep) = 0}

\* interpret budgets: Gas::default(), interpret_test_gas_consumption,
\* interpret_test_gas_out_of_gas, and the multiples of GasStep up to MaxFibGas
FibBudgets ==
    {DefaultGas, 1359, 1} \cup {g \in 0..MaxFibGas : g % GasStep = 0}

InitFib == \E milligas \in FibTcBudgets : Setup(FIBONACCI_SRC, <<"Nat">>, milligas)

StartFibonacci ==
    /\ phase = "tcdone"
    /\ \E n \in 0..MaxN, milligas \in FibBudgets : Start(<<VNat(n)>>, milligas)

NextFib ==
    \/ TypecheckStep
    \/ TypecheckReturn
    \/ StartFibonacci
    \/ IAdd
    \/ IInt
    \/ IGt
    \/ ISwap
    \/ IPush
    \/ IDrop
    \/ IDup
    \/ IDip
    \/ IIf
    \/ ILoop
    \/ Return

FibSpec == InitFib /\ [][NextFib]_vars

\* ---- the test interpret_mutez_push_add of main.rs: { PUSH t a ; PUSH t b ;
\* ADD } from the empty stack, at each type Add is overloaded on
AddOperands == {0, 100, 500, 1000, MutezMax - 807, MutezMax}

PushAddPrograms ==
    { <<Push(t, NumberValue(a)), Push(t, NumberValue(b)), Add>> :
          t \in {"Nat", "Int", "Mutez"}, a \in AddOperands, b \in AddOperands }

InitPushAdd == \E program \in PushAddPrograms : Setup(program, <<>>, DefaultGas)

StartEmpty ==
    /\ phase = "tcdone"
    /\ \E milligas \in {DefaultGas} : Start(<<>>, milligas)

NextPushAdd ==
    \/ TypecheckStep
    \/ TypecheckReturn
    \/ StartEmpty
    \/ IPush
    \/ IAdd
    \/ Return

PushAddSpec == InitPushAdd /\ [][NextPushAdd]_vars

\* ---- typecheck of one instruction (the tests of typecheck_tests), and of
\* the ill-typed Fibonacci of typecheck_test_expect_fail
FIBONACCI_ILLTYPED_SRC ==
    << IntI,
       Push("Int", NumberValue(0)),
       Dup(Some(2)),
       Gt,
       If(<< Dip(None, <<Push("Int", NumberValue(-1)), Add>>),
             Push("Int", NumberValue(1)),
             Dup(Some(4)),
             Gt,
             Loop(<< Swap,
                     Dup(Some(2)),
                     Add,
                     Dip(Some(2), <<Push("Int", NumberValue(-1)), Add>>),
                     Dup(Some(3)),
                     Gt >>),
             Dip(None, <<Drop(Some(2))>>) >>,
          << Dip(None, <<Drop(None)>>) >>) >>

\* the blocks nested in the Dip, If and Loop that are checked
TcBlocks ==
    { <<>>, <<Drop(None)>>, <<IntI>>, <<Gt>>, <<Swap>>, <<Add>>,
      <<Push("Bool", BooleanValue(TRUE))>>,
      <<Dup(None), Gt>>,
      <<IntI, Push("Bool", BooleanValue(TRUE))>> }

\* the depth arguments: absent, and 0 .. MaxHeight
Heights == {None} \cup {Some(k) : k \in 0..MaxHeight}

\* the literals of Push
Literals ==
    {NumberValue(x) : x \in {-1, 0, 1, MutezMax, MutezMax + 1}}
        \cup {BooleanValue(TRUE), BooleanValue(FALSE)}

TcInstructions ==
    {Add, IntI, Gt, Swap}
        \cup {Drop(h) : h \in Heights}
        \cup {Dup(h) : h \in Heights}
        \cup {Push(t, v) : t \in Type, v \in Literals}
        \cup {Dip(h, b) : h \in Heights, b \in TcBlocks}
        \cup {If(b1, b2) : b1 \in TcBlocks, b2 \in TcBlocks}
        \cup {Loop(b) : b \in TcBlocks}

TcPrograms == {<<i>> : i \in TcInstructions} \cup {FIBONACCI_ILLTYPED_SRC}

TcStacks == SeqsUpTo(Type, MaxTcStack)

InitTc ==
    \E program \in TcPrograms, types \in TcStacks :
        Setup(program, types, DefaultGas)

NextTc ==
    \/ TypecheckStep
    \/ TypecheckReturn

TcSpec == InitTc /\ [][NextTc]_vars

\* ------------------------------------------------------------------------
\* Typechecker on budgets that one or two instructions exhaust
\* ------------------------------------------------------------------------
\* typecheck budgets from the empty one to the cost of Push, If and Loop
SmallTcBudgets == {k * GasStep : k \in 0..3}

InitTcGas ==
    \E program \in TcPrograms, types \in TcStacks, milligas \in SmallTcBudgets :
        Setup(program, types, milligas)

NextTcGas ==
    \/ TypecheckStep
    \/ TypecheckReturn

TcGasSpec == InitTcGas /\ [][NextTcGas]_vars

\* ------------------------------------------------------------------------
\* Values: programs that push, add and move Nat and Mutez values
\* ------------------------------------------------------------------------
ValuePushes ==
    { Push("Nat", NumberValue(-1)), Push("Nat", NumberValue(0)),
      Push("Nat", NumberValue(1)),
      Push("Mutez", NumberValue(-1)), Push("Mutez", NumberValue(MutezMax)),
      Push("Mutez", NumberValue(MutezMax + 1)),
      Push("Int", NumberValue(-1)), Push("Bool", BooleanValue(TRUE)) }

ValueOps ==
    { Add, IntI, Gt, Swap, Drop(None), Dup(None), Dup(Some(2)),
      Dip(None, <<Add>>),
      Dip(None, <<Push("Nat", NumberValue(-1))>>),
      If(<<Add>>, <<Drop(None)>>),
      Loop(<<Push("Nat", NumberValue(1)), Add, Push("Bool", BooleanValue(TRUE))>>),
      Loop(<<Dup(None), Add, Push("Bool", BooleanValue(FALSE))>>) }

ValuePrograms ==
    {<<i>> : i \in ValuePushes \cup ValueOps}
        \cup {<<i, j>> : i \in ValuePushes, j \in ValueOps}

ValueTypeStacks == SeqsUpTo(Type, MaxStack)

\* a budget that lets the programs that end run to their end
ValueBudget == 3 * MaxGas

InitValue ==
    \E program \in ValuePrograms, types \in ValueTypeStacks :
        Setup(program, types, DefaultGas)

StartValue ==
    /\ phase = "tcdone"
    /\ \E values \in ValueStacksOf(ty0) : Start(values, ValueBudget)

NextValue ==
    \/ TypecheckStep
    \/ TypecheckReturn
    \/ StartValue
    \/ IAdd
    \/ IInt
    \/ IGt
    \/ ISwap
    \/ IPush
    \/ IDrop
    \/ IDup
    \/ IDip
    \/ IIf
    \/ ILoop
    \/ Return

ValueSpec == InitValue /\ [][NextValue]_vars

\* ------------------------------------------------------------------------
\* Parser (section 4.1): the depth argument of DROP, DUP and DIP
\* ------------------------------------------------------------------------
\* largest depth argument the parser accepts
MaxDepthArg == 1023

\* the value of a decimal literal, given as its digits
RECURSIVE decimal(_)
decimal(ds) ==
    IF ds = <<>> THEN 0
    ELSE decimal(SubSeq(ds, 1, Len(ds) - 1)) * 10 + ds[Len(ds)]

\* the digits a number is printed with
RECURSIVE to_string(_)
to_string(n) == IF n < 10 THEN <<n>> ELSE to_string(n \div 10) \o <<n % 10>>

\* the instruction of a keyword with its optional depth argument; the block
\* of the DIP that is parsed is the empty one
depth_instruction(kw, h) ==
    CASE kw = "DROP" -> Drop(h)
      [] kw = "DUP" -> Dup(h)
      [] kw = "DIP" -> Dip(h, <<>>)

ParseOk(block) == [res |-> "Ok", ast |-> block, msg |-> "", got |-> <<>>]
ParseErr(msg, got) == [res |-> "Err", ast |-> <<>>, msg |-> msg, got |-> got]
NotParsed == [res |-> "-", ast |-> <<>>, msg |-> "", got |-> <<>>]

\* a parser that accepts the depth arguments below the largest one only
parse_exclusive(t) ==
    IF t.digits = <<>>
    THEN ParseOk(<<depth_instruction(t.kw, None)>>)
    ELSE IF decimal(t.digits) < MaxDepthArg
    THEN ParseOk(<<depth_instruction(t.kw, Some(decimal(t.digits)))>>)
    ELSE ParseErr("expected a natural from 0 to 1023 inclusive, but got",
                  to_string(decimal(t.digits)))

\* parser::parse on "{ KW }" and "{ KW n }" ("{ DIP {} }", "{ DIP n {} }")
parse(t) ==
    IF t.digits = <<>>
    THEN ParseOk(<<depth_instruction(t.kw, None)>>)
    ELSE IF decimal(t.digits) <= MaxDepthArg
    THEN ParseOk(<<depth_instruction(t.kw, Some(decimal(t.digits)))>>)
    ELSE ParseErr("expected a natural from 0 to 1023 inclusive, but got",
                  to_string(decimal(t.digits)))

\* the digits the literals are written with
DigitSet == {0, 1, 2, 3, 4, 5, 6, 9}

\* the depth arguments given to the parser: none, every literal of at most
\* MaxDigits digits that does not start with 0, and 65536
DepthLiterals ==
    {ds \in SeqsUpTo(DigitSet, MaxDigits) : Len(ds) > 1 => ds[1] # 0}
        \cup {<<6, 5, 5, 3, 6>>}

InitParse ==
    /\ MirIdle
    /\ HostIdle
    /\ \E kw \in {"DROP", "DUP", "DIP"}, ds \in DepthLiterals :
           text = [kw |-> kw, digits |-> ds]
    /\ parsed = NotParsed

Parse ==
    /\ parsed = NotParsed
    /\ parsed' = parse(text)
    /\ UNCHANGED <<text, durable, calls, ret, mirVars>>

NextParse ==
    \/ Parse

ParseSpec == InitParse /\ [][NextParse]_vars

\* ------------------------------------------------------------------------
\* Host wrapper (runtime.rs): Runtime over the host's durable storage
\* ------------------------------------------------------------------------
\* the paths of durable storage: /a, /a/b, /c, /c/b
HostPaths == {<<"a">>, <<"a", "b">>, <<"c">>, <<"c", "b">>}

\* q lies strictly below p
IsBelow(p, q) == Len(q) > Len(p) /\ SubSeq(q, 1, Len(p)) = p

\* a path without a value, and the value of k bytes
NoEntry == [has |-> FALSE, bytes |-> <<>>]
Entry(k) == [has |-> TRUE, bytes |-> [j \in 1..k |-> 6 + j]]
HostContents == {NoEntry} \cup {Entry(k) : k \in 1..MaxBytes}

\* the host's error the model lets a host function return
HostErrors == {"GenericInvalidAccess"}
Faults == {"-"} \cup HostErrors

\* what a host function returns: a value, or an error code
HostOk(val) == [err |-> "-", val |-> val]
HostFail(e) == [err |-> e, val |-> <<>>]

\* SmartRollupCore::store_has on the storage d
host_store_has(d, path) ==
    LET value == d[path].has
        subtree == \E q \in HostPaths : IsBelow(path, q) /\ d[q].has
    IN  CASE value /\ subtree -> "VALUE_TYPE_VALUE_WITH_SUBTREE"
          [] value /\ ~subtree -> "VALUE_TYPE_VALUE"
          [] ~value /\ subtree -> "VALUE_TYPE_SUBTREE"
          [] OTHER -> "VALUE_TYPE_NONE"

\* the answers SmartRollupCore::store_has can give: the value type, an
\* error code, or a code that is no value type
HasResponses(d, path) ==
    {HostOk(<<host_store_has(d, path)>>), HostOk(<<"VALUE_TYPE_OTHER">>)}
        \cup {HostFail(e) : e \in HostErrors}

\* SmartRollupCore::store_delete: the path and everything below it go
host_store_delete(d, path) ==
    [q \in HostPaths |-> IF q = path \/ IsBelow(path, q) THEN NoEntry ELSE d[q]]

\* SmartRollupCore::store_copy: the subtree at from_path replaces the one at
\* to_path
host_store_copy(d, from_path, to_path) ==
    [q \in HostPaths |->
        IF q = to_path THEN d[from_path]
        ELSE IF IsBelow(to_path, q)
        THEN LET source == from_path \o SubSeq(q, Len(to_path) + 1, Len(q)) IN
             IF source \in HostPaths THEN d[source] ELSE NoEntry
        ELSE d[q]]

\* SmartRollupCore::store_move: a copy, then the source goes
host_store_move(d, from_path, to_path) ==
    host_store_delete(host_store_copy(d, from_path, to_path), from_path)

\* SmartRollupCore::store_write: src replaces the bytes from at_offset on
host_store_write(d, path, src, at_offset) ==
    [d EXCEPT ![path] =
        [has |-> TRUE,
         bytes |-> SubSeq(d[path].bytes, 1, at_offset) \o src
                       \o SubSeq(d[path].bytes, at_offset + Len(src) + 1,
                                 Len(d[path].bytes))]]

\* SmartRollupCore::store_read: at most max_bytes from from_offset on
host_store_read(d, path, from_offset, max_bytes) ==
    SubSeq(d[path].bytes, from_offset + 1,
           IF from_offset + max_bytes < Len(d[path].bytes)
           THEN from_offset + max_bytes
           ELSE Len(d[path].bytes))

\* Result<_, RuntimeError>
RuntimeOk(val) == [res |-> "Ok", err |-> "-", val |-> val]
PathNotFound == [res |-> "PathNotFound", err |-> "-", val |-> <<>>]
HostErr(e) == [res |-> "HostErr", err |-> e, val |-> <<>>]

\* Runtime::store_has, given the answer of the host
store_has(response) ==
    IF response.err # "-"
    THEN HostErr(response.err)
    ELSE CASE response.val = <<"VALUE_TYPE_NONE">> -> RuntimeOk(<<"None">>)
           [] response.val = <<"VALUE_TYPE_VALUE">> -> RuntimeOk(<<"Value">>)
           [] response.val = <<"VALUE_TYPE_SUBTREE">> -> RuntimeOk(<<"Subtree">>)
           [] response.val = <<"VALUE_TYPE_VALUE_WITH_SUBTREE">> ->
                  RuntimeOk(<<"ValueWithSubtree">>)
           [] OTHER -> HostErr("GenericInvalidAccess")

\* check_path_exists that takes every answer but an error for an entry
check_path_exists_lenient(has) ==
    IF has.res = "Ok"
    THEN RuntimeOk(<<>>)
    ELSE PathNotFound

check_path_exists(has) ==
    IF has.res = "Ok" /\ has.val # <<"None">>
    THEN RuntimeOk(<<>>)
    ELSE PathNotFound

check_path_has_value(has) ==
    IF has.res = "Ok" /\ has.val \in {<<"Value">>, <<"ValueWithSubtree">>}
    THEN RuntimeOk(<<>>)
    ELSE PathNotFound

\* Error::wrap on the result of a host function that returns no value
wrap(fault) == IF fault = "-" THEN RuntimeOk(<<>>) ELSE HostErr(fault)

\* the record of a Runtime call: the method, its paths and what it returned
Called(op, path, to_path, result) ==
    [op |-> op, path |-> path, to_path |-> to_path,
     res |-> result.res, err |-> result.err, val |-> result.val]
NoCall == [op |-> "-", path |-> <<>>, to_path |-> <<>>,
           res |-> "-", err |-> "-", val |-> <<>>]

\* a host function that was invoked, and what it returned
HostCall(fn, out) == [fn |-> fn, out |-> out]

\* the host function a Runtime method invokes once its check has passed
\* returns an error code (fault) or acts on durable storage
Invoke(op, path, to_path, has, fn, fault, result, after) ==
    IF fault # "-"
    THEN /\ ret' = Called(op, path, to_path, HostErr(fault))
         /\ calls' = <<HostCall("store_has", has), HostCall(fn, HostFail(fault))>>
         /\ UNCHANGED durable
    ELSE /\ ret' = Called(op, path, to_path, result)
         /\ calls' = <<HostCall("store_has", has), HostCall(fn, HostOk(result.val))>>
         /\ durable' = after

\* the check of a Runtime method failed: it returns before the host function
NotFound(op, path, to_path, has) ==
    /\ ret' = Called(op, path, to_path, PathNotFound)
    /\ calls' = <<HostCall("store_has", has)>>
    /\ UNCHANGED durable

StoreHas ==
    /\ phase = "idle"
    /\ \E path \in HostPaths : \E has \in HasResponses(durable, path) :
           /\ ret' = Called("store_has", path, <<>>, store_has(has))
           /\ calls' = <<HostCall("store_has", has)>>
    /\ UNCHANGED <<durable, text, parsed, mirVars>>

\* from_offset and max_bytes stay within MaxBytes, below MAX_FILE_CHUNK_SIZE
store_read ==
    /\ phase = "idle"
    /\ \E path \in HostPaths, from_offset \in 0..MaxBytes, max_bytes \in 0..MaxBytes :
       \E has \in HasResponses(durable, path), fault \in Faults :
           IF check_path_has_value(store_has(has)).res # "Ok"
           THEN NotFound("store_read", path, <<>>, has)
           ELSE Invoke("store_read", path, <<>>, has, "store_read",
                       IF fault = "-" /\ from_offset > Len(durable[path].bytes)
                       THEN "StoreInvalidAccess" ELSE fault,
                       RuntimeOk(host_store_read(durable, path, from_offset, max_bytes)),
                       durable)
    /\ UNCHANGED <<text, parsed, mirVars>>

\* the bytes written continue the value: at_offset is within it and the
\* value stays within MaxBytes
store_write ==
    /\ phase = "idle"
    /\ \E path \in HostPaths, at_offset \in 0..(MaxBytes - 1) :
       \E k \in 1..(MaxBytes - at_offset), fault \in Faults :
           LET src == [j \in 1..k |-> 6 + at_offset + j]
               wrong == IF fault = "-" /\ at_offset > Len(durable[path].bytes)
                        THEN "StoreInvalidAccess" ELSE fault
           IN  /\ ret' = Called("store_write", path, <<>>, wrap(wrong))
               /\ calls' = <<HostCall("store_write",
                                      IF wrong = "-" THEN HostOk(<<>>) ELSE HostFail(wrong))>>
               /\ durable' = IF wrong = "-"
                             THEN host_store_write(durable, path, src, at_offset)
                             ELSE durable
    /\ UNCHANGED <<text, parsed, mirVars>>

store_delete ==
    /\ phase = "idle"
    /\ \E path \in HostPaths :
       \E has \in HasResponses(durable, path), fault \in Faults :
           IF check_path_exists(store_has(has)).res # "Ok"
           THEN NotFound("store_delete", path, <<>>, has)
           ELSE Invoke("store_delete", path, <<>>, has, "store_delete", fault,
                       RuntimeOk(<<>>), host_store_delete(durable, path))
    /\ UNCHANGED <<text, parsed, mirVars>>

\* the destinations of a move or a copy: apart from the source, and such that
\* the subtree of the source fits under them
TargetsOf(from_path) ==
    {to_path \in HostPaths :
        /\ to_path # from_path
        /\ ~IsBelow(from_path, to_path)
        /\ ~IsBelow(to_path, from_path)
        /\ \A q \in HostPaths :
               IsBelow(from_path, q) =>
                   to_path \o SubSeq(q, Len(from_path) + 1, Len(q)) \in HostPaths}

store_move ==
    /\ phase = "idle"
    /\ \E from_path \in HostPaths : \E to_path \in TargetsOf(from_path) :
       \E has \in HasResponses(durable, from_path), fault \in Faults :
           IF check_path_exists(store_has(has)).res # "Ok"
           THEN NotFound("store_move", from_path, to_path, has)
           ELSE Invoke("store_move", from_path, to_path, has, "store_move", fault,
                       RuntimeOk(<<>>), host_store_move(durable, from_path, to_path))
    /\ UNCHANGED <<text, parsed, mirVars>>

store_copy ==
    /\ phase = "idle"
    /\ \E from_path \in HostPaths : \E to_path \in TargetsOf(from_path) :
       \E has \in HasResponses(durable, from_path), fault \in Faults :
           IF check_path_exists(store_has(has)).res # "Ok"
           THEN NotFound("store_copy", from_path, to_path, has)
           ELSE Invoke("store_copy", from_path, to_path, has, "store_copy", fault,
                       RuntimeOk(<<>>), host_store_copy(durable, from_path, to_path))
    /\ UNCHANGED <<text, parsed, mirVars>>

\* the host has no size to give for a path that is a prefix only
store_value_size ==
    /\ phase = "idle"
    /\ \E path \in HostPaths :
       \E has \in HasResponses(durable, path), fault \in Faults :
           IF check_path_exists(store_has(has)).res # "Ok"
           THEN NotFound("store_value_size", path, <<>>, has)
           ELSE Invoke("store_value_size", path, <<>>, has, "store_value_size",
                       IF fault = "-" /\ ~durable[path].has
                       THEN "StoreNotAValue" ELSE fault,
                       RuntimeOk(<<Len(durable[path].bytes)>>), durable)
    /\ UNCHANGED <<text, parsed, mirVars>>

InitHost ==
    /\ MirIdle
    /\ ParserIdle
    /\ durable \in [HostPaths -> HostContents]
    /\ calls = <<>>
    /\ ret = NoCall

NextHost ==
    \/ StoreHas
    \/ store_read
    \/ store_write
    \/ store_delete
    \/ store_move
    \/ store_copy
    \/ store_value_size

HostSpec == InitHost /\ [][NextHost]_vars

\* ------------------------------------------------------------------------
\* Runtime::store_count_subkeys and Runtime::store_get_subkey
\* ------------------------------------------------------------------------
\* the largest index a caller passes (the smallest is -1)
MaxIndex == 3

\* the prefixes whose subkeys are listed, and the order of the listing
Prefixes == {<<>>, <<"a">>, <<"c">>}
KeyOrder == <<"a", "b", "c">>

\* the subkeys the host lists under prefix on the storage d
host_subkeys(d, prefix) ==
    LET below == {q \in HostPaths : IsBelow(prefix, q) /\ d[q].has}
        steps == {q[Len(prefix) + 1] : q \in below}
        listed(k) == k \in steps
    IN  SelectSeq(KeyOrder, listed)

\* the answers SmartRollupCore::store_list_size can give: the number of
\* subkeys, or a negative error code
ListSizeResponses(d, prefix) ==
    {HostOk(<<Len(host_subkeys(d, prefix))>>)} \cup {HostFail(e) : e \in HostErrors}

\* the answers SmartRollupCore::store_list_get can give for an index below
\* the number of subkeys: the subkey, or a negative error code
ListGetResponses(d, prefix, index) ==
    {HostOk(<<host_subkeys(d, prefix)[index + 1]>>)}
        \cup {HostFail(e) : e \in HostErrors}

RuntimeError(kind) == [res |-> kind, err |-> "-", val |-> <<>>]
StoreListIndexOutOfBounds == RuntimeError("StoreListIndexOutOfBounds")

\* Runtime::store_count_subkeys, given the answer of the host
store_count_subkeys(response) ==
    IF response.err = "-"
    THEN RuntimeOk(response.val)
    ELSE HostErr(response.err)

\* store_get_subkey_unchecked, given the answer of the host
store_get_subkey_unchecked(response) ==
    IF response.err = "-"
    THEN RuntimeOk(response.val)
    ELSE HostErr(response.err)

\* the bounds check with the count itself taken for an index
index_in_bounds_inclusive(index, size) == index >= 0 /\ index <= size

\* index >= 0 && index < size
index_in_bounds(index, size) == index >= 0 /\ index < size

\* the record of a Runtime call that takes an index
CalledAt(op, path, index, result) ==
    [op |-> op, path |-> path, to_path |-> <<>>, index |-> index,
     res |-> result.res, err |-> result.err, val |-> result.val]

StoreCountSubkeys ==
    /\ phase = "idle"
    /\ \E path \in Prefixes : \E size \in ListSizeResponses(durable, path) :
           /\ ret' = Called("store_count_subkeys", path, <<>>,
                            store_count_subkeys(size))
           /\ calls' = <<HostCall("store_list_size", size)>>
    /\ UNCHANGED <<durable, text, parsed, mirVars>>

\* an index the host has no subkey for (the mutant's case) makes the host
\* answer with an error code
store_get_subkey ==
    /\ phase = "idle"
    /\ \E path \in Prefixes, index \in -1..MaxIndex :
       \E size \in ListSizeResponses(durable, path) :
           LET count == store_count_subkeys(size)
           IN  IF count.res # "Ok"
               THEN /\ ret' = CalledAt("store_get_subkey", path, index, count)
                    /\ calls' = <<HostCall("store_list_size", size)>>
               ELSE IF index_in_bounds(index, count.val[1])
               THEN \E got \in (IF index < Len(host_subkeys(durable, path))
                                THEN ListGetResponses(durable, path, index)
                                ELSE {HostFail(e) : e \in HostErrors}) :
                        /\ ret' = CalledAt("store_get_subkey", path, index,
                                           store_get_subkey_unchecked(got))
                        /\ calls' = <<HostCall("store_list_size", size),
                                      HostCall("store_list_get", got)>>
               ELSE /\ ret' = CalledAt("store_get_subkey", path, index,
                                       StoreListIndexOutOfBounds)
                    /\ calls' = <<HostCall("store_list_size", size)>>
    /\ UNCHANGED <<durable, text, parsed, mirVars>>

InitSubkey ==
    /\ MirIdle
    /\ ParserIdle
    /\ durable \in [HostPaths -> HostContents]
    /\ calls = <<>>
    /\ ret = NoCall

NextSubkey ==
    \/ StoreCountSubkeys
    \/ store_get_subkey

SubkeySpec == InitSubkey /\ [][NextSubkey]_vars

\* ------------------------------------------------------------------------
\* Properties
\* ------------------------------------------------------------------------
\* the protected values the running Dips hold, outermost first
RECURSIVE ProtectedValues(_)
ProtectedValues(fs) ==
    IF fs = <<>> THEN <<>> ELSE ProtectedValues(Tail(fs)) \o Head(fs).protected

\* the Fibonacci numbers
RECURSIVE fib(_)
fib(n) == IF n = 0 THEN 0 ELSE IF n = 1 THEN 1 ELSE fib(n - 1) + fib(n - 2)

\* an instruction with nested blocks
IsNested(i) == i.op \in {"Dip", "If", "Loop"}

\* C1: when typecheck of a program from T0 succeeds and leaves T1, interpret
\* on a value stack of types T0 never reaches InternalInvariantBroken, ends
\* only with OutOfGas, MutezOverflow or Ok, and on Ok the value stack has
\* exactly the types T1 (same length, same type per slot).
C1_ProgressPreservation ==
    /\ res # "InternalInvariantBroken"
    /\ phase = "done" =>
          /\ res \in {"OutOfGas", "MutezOverflow", "Ok"}
          /\ res = "Ok" => TypesOf(stack) = tcStack

C1_Witness ==
    /\ phase = "done"
    /\ res = "Ok"
    /\ Len(stack) >= 2
    /\ TypesOf(stack) # ty0
    /\ \E k \in 1..Len(typed) : IsNested(typed[k])

\* C2: the typechecked Fibonacci program run on [Nat(n)] with sufficient gas
\* succeeds, and whenever it succeeds it leaves exactly [Int(fib(n))].
C2_FibonacciResult ==
    phase = "done" =>
        /\ budget = DefaultGas => res = "Ok"
        /\ res = "Ok" => stack = <<VInt(fib(v0[1].n))>>

C2_Witness ==
    /\ phase = "done"
    /\ res = "Ok"
    /\ v0 = <<VNat(10)>>
    /\ stack = <<VInt(55)>>

\* C3: typecheck of the Fibonacci program from [Nat] succeeds when the gas
\* suffices, and whenever it succeeds it leaves the type stack [Int].
C3_FibonacciTypechecks ==
    phase # "tc" =>
        /\ tcBudget = DefaultGas => tcRes = "Ok"
        /\ tcRes = "Ok" => tcStack = <<"Int">>

C3_Witness ==
    /\ phase = "tcdone"
    /\ ty0 = <<"Nat">>
    /\ tcRes = "Ok"
    /\ tcStack = <<"Int">>
    /\ Len(typed) = Len(FIBONACCI_SRC)

\* C4: the Fibonacci program run on [Nat(5)] with a budget of exactly 1359
\* milligas succeeds and leaves the gas counter at exactly 0.
C4_Budget1359LeavesZero ==
    (phase = "done" /\ v0 = <<VNat(5)>> /\ budget = 1359) =>
        (res = "Ok" /\ gas = 0)

\* C5: typecheck of the Fibonacci program from [Nat] charges exactly 11460
\* milligas: a budget of 11460 succeeds and leaves 0, a budget of 1000
\* fails with OutOfGas.
C5_TypecheckCharges11460 ==
    phase # "tc" =>
        /\ tcBudget = 11460 => (tcRes = "Ok" /\ tcGas = 0)
        /\ tcBudget = 1000 => tcRes = "OutOfGas"

\* C6: the Fibonacci program run on [Nat(5)] with a budget that does not pay
\* for every executed step (the whole run charges 894 milligas), in
\* particular a budget of 1, returns OutOfGas: never Ok, never another error.
C6_SmallBudgetIsOutOfGas ==
    (phase = "done" /\ v0 = <<VNat(5)>>) =>
        /\ res \in {"Ok", "OutOfGas"}
        /\ budget = 1 => res = "OutOfGas"
        /\ budget < 894 => res = "OutOfGas"
        /\ res = "Ok" => budget - gas = 894

C6_Witness ==
    /\ phase = "done"
    /\ v0 = <<VNat(5)>>
    /\ budget = 1
    /\ res = "OutOfGas"

\* C7: interpret terminates for every typechecked program and every finite
\* budget: once called it returns, a Loop whose condition stays true being
\* stopped by OutOfGas.
C7_InterpretTerminates == (phase = "run") ~> (phase = "done")

C7_Witness ==
    /\ phase = "done"
    /\ res = "OutOfGas"
    /\ ast = <<Push("Bool", BooleanValue(TRUE)), Loop(<<Push("Bool", BooleanValue(TRUE))>>)>>
    /\ budget = 3 * MaxGas

\* C8: across a run of typecheck or of interpret the gas counter never
\* increases and is never negative, and an instruction whose charge succeeds
\* leaves the counter strictly lower.
C8_GasMonotone ==
    [][ /\ tcGas >= 0 /\ tcGas' >= 0 /\ tcGas' <= tcGas
        /\ gas >= 0 /\ gas' >= 0
        /\ phase = "run" => gas' <= gas
        /\ (phase = "tc" /\ todo # <<>> /\ tcRes' # "OutOfGas") => tcGas' < tcGas
        /\ (HasCur /\ res' # "OutOfGas") => gas' < gas ]_vars

C8_Witness ==
    /\ phase = "run"
    /\ 0 < gas
    /\ gas < budget
    /\ tcGas < tcBudget
    /\ Len(frames) >= 2

\* C9: a charge is atomic: when the counter holds at least the cost it is
\* lowered by exactly the cost, and when it holds less the call fails with
\* OutOfGas and the counter keeps its value.
C9_ConsumeAtomic ==
    [][ /\ HasCur =>
              IF gas >= interpret_cost(cur)
              THEN gas' = gas - interpret_cost(cur) /\ res' # "OutOfGas"
              ELSE gas' = gas /\ res' = "OutOfGas"
        /\ (phase = "tc" /\ todo # <<>>) =>
              IF tcGas >= tc_cost(Head(todo))
              THEN IF IsNested(Head(todo))
                   THEN tcGas' <= tcGas - tc_cost(Head(todo))
                   ELSE tcGas' = tcGas - tc_cost(Head(todo)) /\ tcRes' # "OutOfGas"
              ELSE tcGas' = tcGas /\ tcRes' = "OutOfGas" ]_vars

C9_Witness ==
    /\ phase = "done"
    /\ res = "OutOfGas"
    /\ 0 < gas
    /\ gas < budget
    /\ gas < interpret_cost(Head(Head(frames).code))

\* C10: when interpret aborts with OutOfGas the caller's value stack is the
\* stack as it was before the instruction whose charge failed, the values
\* protected by the running Dips included.
C10_StackKeptOnOutOfGas ==
    res = "OutOfGas" => stack = ProtectedValues(frames) \o stack

\* C11: { PUSH mutez a ; PUSH mutez b ; ADD } from the empty stack typechecks
\* to [Mutez]; interpreted, it leaves [Mutez(a+b)] when a+b does not exceed
\* the largest Mutez and fails with MutezOverflow when it does, never
\* wrapping around.
C11_MutezAdd ==
    ast[1].t = "Mutez" =>
        /\ phase # "tc" => (tcRes = "Ok" /\ tcStack = <<"Mutez">>)
        /\ phase = "done" =>
              IF ast[1].v.n + ast[2].v.n <= MutezMax
              THEN res = "Ok" /\ stack = <<VMutez(ast[1].v.n + ast[2].v.n)>>
              ELSE res = "MutezOverflow"

\* same length and the same type in every slot
StacksEqual(l, r) ==
    /\ Len(l) = Len(r)
    /\ \A k \in 1..Len(l) : l[k] = r[k]

\* C12: typecheck of If T E needs Bool on top; T and E are each checked on a
\* copy of the tail below the Bool; when both succeed and leave stacks equal
\* slot by slot that stack is the result, and when the stacks differ in
\* length or in a slot the instruction is rejected with StacksNotEqual.
C12_IfTypecheck ==
    (phase = "tcdone" /\ ast[1].op = "If") =>
        IF ty0 # <<>> /\ ty0[1] = "Bool"
        THEN LET T == typecheck(ast[1].b1, DefaultGas, Tail(ty0))
                 E == typecheck(ast[1].b2, DefaultGas, Tail(ty0))
             IN  IF T.res = "Ok" /\ E.res = "Ok"
                 THEN IF StacksEqual(T.stack, E.stack)
                      THEN tcRes = "Ok" /\ tcStack = T.stack
                      ELSE tcRes = "StacksNotEqual"
                 ELSE tcRes # "Ok"
        ELSE tcRes # "Ok"

C12_Witness ==
    /\ phase = "tcdone"
    /\ ast[1].op = "If"
    /\ tcRes = "StacksNotEqual"
    /\ ty0 # <<>>
    /\ Len(typecheck(ast[1].b1, DefaultGas, Tail(ty0)).stack)
           = Len(typecheck(ast[1].b2, DefaultGas, Tail(ty0)).stack)

\* C13: typecheck of Loop B on Bool :: t succeeds exactly when B typechecks
\* on t and leaves exactly Bool :: t, and the result is then t; it is
\* rejected when the top is not Bool, when the stack B leaves does not start
\* with Bool, or when the rest of it differs from t.
C13_LoopTypecheck ==
    (phase = "tcdone" /\ ast[1].op = "Loop") =>
        /\ tcRes = "Ok" <=>
              /\ ty0 # <<>>
              /\ ty0[1] = "Bool"
              /\ typecheck(ast[1].b1, DefaultGas, Tail(ty0)).res = "Ok"
              /\ typecheck(ast[1].b1, DefaultGas, Tail(ty0)).stack = <<"Bool">> \o Tail(ty0)
        /\ tcRes = "Ok" => tcStack = Tail(ty0)

C13_Witness ==
    /\ phase = "tcdone"
    /\ ast[1].op = "Loop"
    /\ tcRes = "Ok"
    /\ Len(ast[1].b1) = 2
    /\ tcStack # <<>>

\* C14: typecheck of Dip n B (n is 1 when absent) on a stack S of length at
\* least n checks B on S[n..] and yields S[0..n] followed by the stack B
\* left; on a shorter stack it fails with StackTooShort.
C14_DipTypecheck ==
    (phase = "tcdone" /\ ast[1].op = "Dip") =>
        LET n == IF ast[1].h.has THEN ast[1].h.n ELSE 1 IN
        IF Len(ty0) < n
        THEN tcRes = "StackTooShort"
        ELSE LET B == typecheck(ast[1].b1, DefaultGas, SubSeq(ty0, n + 1, Len(ty0))) IN
             /\ tcRes = B.res
             /\ tcRes = "Ok" => tcStack = SubSeq(ty0, 1, n) \o B.stack

C14_Witness ==
    /\ phase = "tcdone"
    /\ ast[1].op = "Dip"
    /\ ast[1].h = Some(2)
    /\ tcRes = "Ok"
    /\ Len(tcStack) > Len(ty0)
    /\ tcStack[1] # tcStack[2]

\* C15: typecheck of Dup n with n >= 1 (n is 1 when absent) on a stack of at
\* least n slots pushes a copy of the type at depth n-1 and leaves the other
\* slots as they were; on a stack of len < n slots it fails with
\* StackTooShort carrying expected = n and got = len, and the Fibonacci
\* program with DUP 4 fails with StackTooShort { expected: 4, got: 3 }.
C15_DupTypecheck ==
    /\ (phase = "tcdone" /\ ast[1].op = "Dup" /\ ast[1].h # Some(0)) =>
          LET n == IF ast[1].h.has THEN ast[1].h.n ELSE 1 IN
          IF Len(ty0) >= n
          THEN tcRes = "Ok" /\ tcStack = <<ty0[n]>> \o ty0
          ELSE tcErr = [kind |-> "StackTooShort", expected |-> n, got |-> Len(ty0)]
    /\ (phase = "tcdone" /\ ast = FIBONACCI_ILLTYPED_SRC /\ ty0 = <<"Nat">>) =>
          tcErr = [kind |-> "StackTooShort", expected |-> 4, got |-> 3]

\* C16: Dup 0 is rejected on every type stack with the error kind
\* InvalidArgument, and the type stack is left as it was.
C16_DupZeroRejected ==
    (phase = "tcdone" /\ ast[1] = Dup(Some(0))) =>
        /\ tcRes = "InvalidArgument"
        /\ tcStack = ty0

\* C17: typecheck of Add succeeds exactly when the top two types are
\* (Nat, Nat), (Int, Int) or (Mutez, Mutez); it then removes one slot, the
\* new top being the operand type and the rest unchanged, and the typed
\* instruction carries the overload tag NatNat, IntInt or MutezMutez.
C17_AddTypecheck ==
    (phase = "tcdone" /\ ast[1].op = "Add") =>
        /\ tcRes = "Ok" <=>
              /\ Len(ty0) >= 2
              /\ ty0[1] = ty0[2]
              /\ ty0[1] \in {"Nat", "Int", "Mutez"}
        /\ tcRes = "Ok" =>
              /\ tcStack = Tail(ty0)
              /\ typed[1].ov = CASE ty0[1] = "Nat" -> "NatNat"
                                 [] ty0[1] = "Int" -> "IntInt"
                                 [] ty0[1] = "Mutez" -> "MutezMutez"

\* C18: typecheck of Push t v succeeds, pushing t, exactly when t = Nat and
\* v is a Number n >= 0, t = Int and v is a Number, t = Mutez and v is a
\* Number n with 0 <= n <= the largest Mutez, or t = Bool and v is a
\* Boolean; every other pair is an error and leaves the stack unchanged.
C18_PushTypecheck ==
    (phase = "tcdone" /\ ast[1].op = "Push") =>
        LET t == ast[1].t
            v == ast[1].v
        IN  IF \/ t = "Nat" /\ v.k = "NumberValue" /\ v.n >= 0
               \/ t = "Int" /\ v.k = "NumberValue"
               \/ t = "Mutez" /\ v.k = "NumberValue" /\ 0 <= v.n /\ v.n <= MutezMax
               \/ t = "Bool" /\ v.k = "BooleanValue"
            THEN tcRes = "Ok" /\ tcStack = <<t>> \o ty0
            ELSE tcRes \notin {"Ok", "Running", "Panic"} /\ tcStack = ty0

\* C19: the parser accepts DROP n, DUP n and DIP n { } for every n in
\* 0..1023, yielding Drop(Some(n)), Dup(Some(n)), Dip(Some(n), block), and
\* rejects every n > 1023 with 'expected a natural from 0 to 1023 inclusive,
\* but got <n>'; 1023 parses, 1024, 1025 and 65536 do not.
C19_DepthArgumentRange ==
    (parsed.res # "-" /\ text.digits # <<>>) =>
        /\ IF decimal(text.digits) \in 0..1023
           THEN /\ parsed.res = "Ok"
                /\ Len(parsed.ast) = 1
                /\ parsed.ast[1].op = CASE text.kw = "DROP" -> "Drop"
                                         [] text.kw = "DUP" -> "Dup"
                                         [] text.kw = "DIP" -> "Dip"
                /\ parsed.ast[1].h = Some(decimal(text.digits))
           ELSE /\ parsed.res = "Err"
                /\ parsed.msg = "expected a natural from 0 to 1023 inclusive, but got"
                /\ parsed.got = text.digits
        /\ text.digits = <<1, 0, 2, 3>> => parsed.res = "Ok"
        /\ text.digits \in {<<1, 0, 2, 4>>, <<1, 0, 2, 5>>, <<6, 5, 5, 3, 6>>} =>
              parsed.res = "Err"

C19_Witness ==
    /\ parsed.res = "Err"
    /\ text.kw = "DUP"
    /\ text.digits = <<6, 5, 5, 3, 6>>
    /\ parsed.got = <<6, 5, 5, 3, 6>>

\* C20: store_read, store_delete, store_move, store_copy and
\* store_value_size, called on a (source) path for which store_has reports
\* no entry, return PathNotFound without invoking their host function, and
\* durable storage is unchanged.
C20_PathNotFoundBeforeHostCall ==
    [][ ( /\ ret'.op \in {"store_read", "store_delete", "store_move",
                          "store_copy", "store_value_size"}
          /\ calls'[1].out.err = "-"
          /\ calls'[1].out.val = <<"VALUE_TYPE_NONE">> ) =>
            /\ ret'.res = "PathNotFound"
            /\ Len(calls') = 1
            /\ calls'[1].fn = "store_has"
            /\ durable' = durable ]_vars

C20_Witness ==
    /\ ret.op = "store_move"
    /\ ret.res = "PathNotFound"
    /\ calls = <<HostCall("store_has", HostOk(<<"VALUE_TYPE_NONE">>))>>
    /\ host_store_has(durable, ret.path) = "VALUE_TYPE_NONE"
    /\ \E q \in HostPaths : durable[q].has

\* C21: store_get_subkey(prefix, index) returns StoreListIndexOutOfBounds
\* exactly when index < 0 or index >= the count the host reports for
\* prefix, and then store_list_get is not invoked; for 0 <= index < count
\* store_list_get is invoked and the subkey it supplies for that index is
\* returned.
C21_SubkeyIndexBounds ==
    ( /\ ret.op = "store_get_subkey"
      /\ calls[1].out.err = "-" ) =>
        LET count == calls[1].out.val[1]
            outside == ret.index < 0 \/ ret.index >= count
        IN  /\ calls[1].fn = "store_list_size"
            /\ (ret.res = "StoreListIndexOutOfBounds") <=> outside
            /\ outside => Len(calls) = 1
            /\ ~outside =>
                 /\ Len(calls) = 2
                 /\ calls[2].fn = "store_list_get"
                 /\ calls[2].out.err = "-" =>
                      /\ ret.res = "Ok"
                      /\ ret.val = calls[2].out.val
                      /\ ret.val = <<host_subkeys(durable, ret.path)[ret.index + 1]>>

C21_Witness ==
    /\ ret.op = "store_get_subkey"
    /\ ret.path = <<>>
    /\ ret.index = 1
    /\ calls = <<HostCall("store_list_size", HostOk(<<2>>)),
                 HostCall("store_list_get", HostOk(<<"c">>))>>
    /\ ret.res = "Ok"
    /\ ret.val = <<"c">>

C23_TypecheckTotal ==
    phase = "tcdone" =>
        /\ tcRes \in {"Ok", "OutOfGas", "StackTooShort", "StacksNotEqual",
                      "GenericTcError"}
        /\ ( /\ ast[1].op = "Add"
             /\ ~( /\ Len(ty0) >= 2
                   /\ ty0[1] = ty0[2]
                   /\ ty0[1] \in {"Nat", "Int", "Mutez"} ) ) =>
               tcRes \notin {"Ok", "Panic"}

\* the value is one its type admits: a Nat is not negative, a Mutez is
\* within 0 and the largest Mutez
InRange(x) ==
    /\ x.t = "Nat" => x.n >= 0
    /\ x.t = "Mutez" => (0 <= x.n /\ x.n <= MutezMax)

\* C24: while a typechecked program runs from a value stack whose Nats are
\* not negative and whose Mutez are within range, every Nat on the value
\* stack, and every Nat a Dip holds, is >= 0 and every Mutez is within 0
\* and the largest Mutez; Add on two Mutez in range gives their sum when it
\* is in range and MutezOverflow otherwise.
C24_ValuesInRange ==
    /\ (\A k \in 1..Len(v0) : InRange(v0[k])) =>
          /\ \A k \in 1..Len(stack) : InRange(stack[k])
          /\ \A k \in 1..Len(ProtectedValues(frames)) :
                 InRange(ProtectedValues(frames)[k])
    /\ \A a \in AddOperands, b \in AddOperands :
          LET r == interpret_Add([Add EXCEPT !.ov = "MutezMutez"],
                                 <<VMutez(a), VMutez(b)>>)
          IN  IF a + b <= MutezMax
              THEN r.res = "Ok" /\ r.stack = <<VMutez(a + b)>>
              ELSE r.res = "MutezOverflow"

C24_Witness ==
    /\ ast = <<Push("Bool", BooleanValue(TRUE)),
               Loop(<<Dup(None), Add, Push("Bool", BooleanValue(FALSE))>>)>>
    /\ v0 = <<VNat(1), VMutez(MutezMax)>>
    /\ res = "Ok"
    /\ stack = <<VNat(2), VMutez(MutezMax)>>

\* C25: the host wrapper keeps the kind of the error: when the store_has
\* call of the check of store_read, store_delete, store_move, store_copy or
\* store_value_size fails with an error code, the method returns HostErr
\* with that code, and not PathNotFound.
C25_HostErrorKept ==
    [][ ( /\ ret'.op \in {"store_read", "store_delete", "store_move",
                          "store_copy", "store_value_size"}
          /\ calls'[1].fn = "store_has"
          /\ calls'[1].out.err # "-" ) =>
            /\ ret'.res = "HostErr"
            /\ ret'.err = calls'[1].out.err ]_vars

\* C26: a failing instruction has no partial effect on the type stack: when
\* typecheck_instruction returns an error, the caller's type stack is as it
\* was before the instruction, also when the failure is inside the block of
\* a Dip, an If or a Loop.
C26_FailureKeepsTypeStack ==
    [][ ( /\ phase = "tc"
          /\ todo # <<>>
          /\ tcRes' \in {"OutOfGas", "StackTooShort", "StacksNotEqual",
                         "GenericTcError"} ) =>
            tcStack' = tcStack ]_vars

====
